---- MODULE Spec2Model ----
(***************************************************************************)
(* Model of gmacgilchrist/esm2m:                                           *)
(*   src/esm2m/thermodynamics.py      closed-form thermodynamic formulas   *)
(*   src/esm2m/config_perturbations.py  archive path resolution / loading  *)
(*                                                                         *)
(* The thermodynamic functions are numpy float64 computations.  Floating   *)
(* point is modelled by a binary floating-point format of the same shape   *)
(* as IEEE-754 binary64 (sign, mantissa, exponent, subnormals, signed      *)
(* zeros, +-inf, NaN, round-to-nearest-even) with a mantissa of Prec bits  *)
(* and binary exponents up to EMax instead of 53 bits and 1023.  Inputs    *)
(* are numpy values (array elements), so a division by zero yields an      *)
(* infinity or NaN and is never raised.                                    *)
(***************************************************************************)
EXTENDS Integers, Sequences, FiniteSets, TLC

VARIABLES
  \* one evaluation of the wet-bulb / relative-humidity entry points
  arg_tref, arg_sh, arg_rh, arg_p, arg_method,  \* the arguments of the calls
  called,                      \* the entry points that have returned
  wbt_sh_call,                 \* frame of _calc_wbt_from_tref_sh_p
  rh_sh_call,                  \* frame of _calc_rh_from_tref_sh_p
  wbt_rh_call,                 \* frame of _calc_wbt_from_tref_rh_p
  \* direct calls of the basic functions
  in_esat1, in_esat2, in_p,    \* two saturation vapor pressures, one pressure
  in_wsat, in_rh,              \* a saturation mixing ratio, a relative humidity
  basic_called,                \* the basic calls that have returned
  out_wsat1, out_wsat2,        \* calc_wsat_from_esat_p(in_esat1 / in_esat2, in_p)
  out_w,                       \* calc_w_from_wsat_rh(in_wsat, in_rh)
  \* calls of get_path / load_exps
  arg_variable, arg_ppname, arg_override, arg_experiments, arg_timespan,
  caller_list,                 \* the list object the caller passed as experiments
  last_call,                   \* the function called last
  path_call,                   \* outcome of the last get_path call
  load_call                    \* outcome of the last load_exps call

vars_pipe == <<arg_tref, arg_sh, arg_rh, arg_p, arg_method, called,
               wbt_sh_call, rh_sh_call, wbt_rh_call>>
vars_basic == <<in_esat1, in_esat2, in_p, in_wsat, in_rh, basic_called,
                out_wsat1, out_wsat2, out_w>>
vars_path == <<arg_variable, arg_ppname, arg_override, arg_experiments, arg_timespan,
               caller_list, last_call, path_call, load_call>>
vars == <<vars_pipe, vars_basic, vars_path>>

\* Mantissa width of the modelled floating-point format (float64: 53).
Prec == 8
\* Largest binary exponent of a finite value (float64: 1023).
EMax == 150

\* Exponent of the unit in the last place: lowest (subnormals) and highest.
ELo == 2 - EMax - Prec
EHi == EMax - (Prec - 1)
\* Fraction bits of the fixed-point evaluation of exp, log, arctan.
FracBits == Prec + 4

Max(a, b) == IF a >= b THEN a ELSE b
Pow2(k) == 2 ^ k
BitLen[n \in Nat] ==
  IF n >= Pow2(30) THEN 31
  ELSE CHOOSE b \in 0..30 : n < Pow2(b) /\ (b = 0 \/ n >= Pow2(b - 1))

(***************************************************************************)
(* Values.  A finite value is (-1)^s * m * 2^e in canonical form: m has    *)
(* Prec bits unless e = ELo (subnormal); zero is m = 0, e = ELo.  None is  *)
(* Python's None; Unbound is a local no statement has assigned.            *)
(***************************************************************************)
Val == [k : {"fin", "inf", "nan", "none", "unbound"}, s : {0, 1}, m : Nat, e : Int]
Fin(s, m, e) == [k |-> "fin", s |-> s, m |-> m, e |-> e]
Zero(s) == Fin(s, 0, ELo)
Inf(s) == [k |-> "inf", s |-> s, m |-> 0, e |-> EHi + 1]
NaN == [k |-> "nan", s |-> 0, m |-> 0, e |-> 0]
None == [k |-> "none", s |-> 0, m |-> 0, e |-> 0]
Unbound == [k |-> "unbound", s |-> 0, m |-> 0, e |-> 0]

IsNaN(x) == x.k = "nan"
IsInf(x) == x.k = "inf"
IsFin(x) == x.k = "fin"
IsFloat(x) == x.k \in {"fin", "inf", "nan"}
IsZero(x) == x.k = "fin" /\ x.m = 0
\* not numpy.isfinite
NonFinite(x) == x.k \in {"inf", "nan"}

\* Round (-1)^s * (n + f) * 2^E to the format by dropping sh bits (sh <= 0:
\* exact), where f = 0, or 0 < f < 1 when sticky: to nearest, ties to even.
RoundShift[s \in {0, 1}, n \in Nat, E \in Int, sticky \in BOOLEAN, sh \in Int] ==
  IF sh <= 0
  THEN IF E + sh > EHi THEN Inf(s) ELSE Fin(s, n * Pow2(-sh), E + sh)
  ELSE IF sh > BitLen[n] \/ sh > 30 THEN Zero(s)
  ELSE LET q == n \div Pow2(sh)
           r == n % Pow2(sh)
           half == Pow2(sh - 1)
           up == r > half \/ (r = half /\ (sticky \/ q % 2 = 1))
           m == IF up THEN q + 1 ELSE q
           e == E + sh
       IN IF m = Pow2(Prec)
          THEN IF e + 1 > EHi THEN Inf(s) ELSE Fin(s, Pow2(Prec - 1), e + 1)
          ELSE IF e > EHi THEN Inf(s)
          ELSE IF m = 0 THEN Zero(s)
          ELSE Fin(s, m, e)
RoundInt[s \in {0, 1}, n \in Nat, E \in Int, sticky \in BOOLEAN] ==
  IF n = 0 THEN Zero(s)
  ELSE RoundShift[s, n, E, sticky, Max(BitLen[n] - Prec, ELo - E)]

\* A Python int literal as a float64.
FromInt(n) == IF n < 0 THEN RoundInt[1, -n, 0, FALSE] ELSE RoundInt[0, n, 0, FALSE]

FNeg[x \in Val] == IF IsNaN(x) THEN NaN ELSE [x EXCEPT !.s = 1 - x.s]
FAbs[x \in Val] == IF IsNaN(x) THEN NaN ELSE [x EXCEPT !.s = 0]
SignXor(a, b) == IF a.s = b.s THEN 0 ELSE 1

\* a * b
FMul[a \in Val, b \in Val] ==
  IF IsNaN(a) \/ IsNaN(b) THEN NaN
  ELSE IF IsInf(a) \/ IsInf(b)
       THEN IF IsZero(a) \/ IsZero(b) THEN NaN ELSE Inf(SignXor(a, b))
  ELSE RoundInt[SignXor(a, b), a.m * b.m, a.e + b.e, FALSE]

\* a / b on numpy values: x/0 is +-inf, 0/0 and inf/inf are NaN.
FDiv[a \in Val, b \in Val] ==
  IF IsNaN(a) \/ IsNaN(b) THEN NaN
  ELSE IF IsInf(a) THEN (IF IsInf(b) THEN NaN ELSE Inf(SignXor(a, b)))
  ELSE IF IsInf(b) THEN Zero(SignXor(a, b))
  ELSE IF IsZero(b) THEN (IF IsZero(a) THEN NaN ELSE Inf(SignXor(a, b)))
  ELSE IF IsZero(a) THEN Zero(SignXor(a, b))
  ELSE LET la == Prec - BitLen[a.m]
           num == a.m * Pow2(la) * Pow2(Prec + 2)
       IN RoundInt[SignXor(a, b), num \div b.m,
                   a.e - la - (Prec + 2) - b.e, num % b.m # 0]

\* a + b
FAdd[a \in Val, b \in Val] ==
  IF IsNaN(a) \/ IsNaN(b) THEN NaN
  ELSE IF IsInf(a) THEN (IF IsInf(b) /\ a.s # b.s THEN NaN ELSE a)
  ELSE IF IsInf(b) THEN b
  ELSE IF IsZero(a) /\ IsZero(b) THEN Zero(IF a.s = b.s THEN a.s ELSE 0)
  ELSE IF IsZero(a) THEN b
  ELSE IF IsZero(b) THEN a
  ELSE LET hi == IF a.e >= b.e THEN a ELSE b
           lo == IF a.e >= b.e THEN b ELSE a
           d == hi.e - lo.e
       IN IF d > Prec + 2
          THEN IF hi.s = lo.s THEN RoundInt[hi.s, hi.m * 4, hi.e - 2, TRUE]
               ELSE RoundInt[hi.s, hi.m * 4 - 1, hi.e - 2, TRUE]
          ELSE LET sg(x) == IF x.s = 1 THEN -1 ELSE 1
                   N == sg(hi) * hi.m * Pow2(d) + sg(lo) * lo.m
               IN IF N = 0 THEN Zero(0)
                  ELSE IF N < 0 THEN RoundInt[1, -N, lo.e, FALSE]
                  ELSE RoundInt[0, N, lo.e, FALSE]

\* a - b
FSub[a \in Val, b \in Val] == FAdd[a, FNeg[b]]

\* Comparisons (IEEE: every comparison with NaN is false, -0 == +0).
MagLt(a, b) == a.e < b.e \/ (a.e = b.e /\ a.m < b.m)
FEq(a, b) == IsFloat(a) /\ IsFloat(b) /\ ~IsNaN(a) /\ ~IsNaN(b)
             /\ (a = b \/ (IsZero(a) /\ IsZero(b)))
FLt(a, b) ==
  /\ IsFloat(a) /\ IsFloat(b) /\ ~IsNaN(a) /\ ~IsNaN(b)
  /\ ~(IsZero(a) /\ IsZero(b))
  /\ \/ a.s = 1 /\ b.s = 0
     \/ a.s = 0 /\ b.s = 0 /\ MagLt(a, b)
     \/ a.s = 1 /\ b.s = 1 /\ MagLt(b, a)
FLe(a, b) == FLt(a, b) \/ FEq(a, b)

\* The decimal literal d * 10^-k.
RECURSIVE Dec(_, _)
Dec(d, k) == IF k = 0 THEN FromInt(d)
             ELSE IF k <= 9 THEN FDiv[FromInt(d), FromInt(10 ^ k)]
             ELSE FDiv[Dec(d, k - 9), FromInt(10 ^ 9)]

(***************************************************************************)
(* numpy's elementary functions.  The IEEE special cases are exact; a      *)
(* finite argument is evaluated in fixed point with FracBits fraction bits *)
(* and rounded to the format.                                              *)
(***************************************************************************)
One == Pow2(FracBits)
\* ln 2, pi/4 and the coefficients of the arctan fit, scaled by 2^FracBits.
Ln2Fix == 45426 \div Pow2(16 - FracBits)
QuarterPiFix == 51472 \div Pow2(16 - FracBits)
AtanC1Fix == 16037 \div Pow2(16 - FracBits)
AtanC2Fix == 4345 \div Pow2(16 - FracBits)
FixMul(a, b) == (a * b) \div One

\* The finite value x as a fixed-point integer (|x| < 2^(30 - FracBits)).
ToFix[x \in Val] ==
  LET t == x.e + FracBits
      mag == IF t >= 0 THEN x.m * Pow2(t)
             ELSE IF -t > 30 THEN 0 ELSE x.m \div Pow2(-t)
  IN IF x.s = 1 THEN -mag ELSE mag
FromFix[v \in Int] == IF v < 0 THEN RoundInt[1, -v, -FracBits, FALSE]
                      ELSE RoundInt[0, v, -FracBits, FALSE]

\* exp(r) for 0 <= r < ln 2: the Taylor polynomial of degree 5.
ExpFix[r \in Nat] ==
  LET t5 == One + r \div 5
      t4 == One + FixMul(r, t5) \div 4
      t3 == One + FixMul(r, t4) \div 3
      t2 == One + FixMul(r, t3) \div 2
  IN One + FixMul(r, t2)
\* exp of a fixed-point argument: exp(v) = 2^k * exp(r), v = k ln 2 + r.
FExpOfFix[v \in Int] ==
  IF v = 0 THEN FromInt(1)
  ELSE RoundInt[0, ExpFix[v % Ln2Fix], (v \div Ln2Fix) - FracBits, TRUE]
\* np.exp
FExp[x \in Val] ==
  IF IsNaN(x) THEN NaN
  ELSE IF IsInf(x) THEN (IF x.s = 0 THEN Inf(0) ELSE Zero(0))
  ELSE IF IsZero(x) THEN FromInt(1)
  ELSE IF BitLen[x.m] + x.e > 7 THEN (IF x.s = 0 THEN Inf(0) ELSE Zero(0))
  ELSE FExpOfFix[ToFix[x]]

\* ln f = 2 atanh(z) for the fixed-point z = (f - 1) / (f + 1), 1 <= f < 2.
LnSeries[z \in Nat] ==
  LET z2 == FixMul(z, z)
      s3 == One \div 5 + FixMul(z2, One \div 7)
      s2 == One \div 3 + FixMul(z2, s3)
      s1 == One + FixMul(z2, s2)
  IN 2 * FixMul(z, s1)
\* ln of a finite x > 0 in fixed point: x = f * 2^E2 with 1 <= f < 2.
LogFix[x \in Val] ==
  LET b == BitLen[x.m]
      mn == x.m * Pow2(Prec - b)
      E2 == x.e - (Prec - b) + (Prec - 1)
  IN E2 * Ln2Fix
     + LnSeries[((mn - Pow2(Prec - 1)) * One) \div (mn + Pow2(Prec - 1))]
\* np.log
FLog[x \in Val] ==
  IF IsNaN(x) THEN NaN
  ELSE IF IsZero(x) THEN Inf(1)
  ELSE IF x.s = 1 THEN NaN
  ELSE IF IsInf(x) THEN Inf(0)
  ELSE FromFix[LogFix[x]]

IsInt(y) == /\ IsFin(y)
            /\ \/ y.e >= 0
               \/ y.m = 0
               \/ -y.e <= 30 /\ y.m % Pow2(-y.e) = 0
IsOddInt(y) == /\ IsInt(y)
               /\ \/ y.e = 0 /\ y.m % 2 = 1
                  \/ y.e < 0 /\ y.m # 0 /\ (y.m \div Pow2(-y.e)) % 2 = 1
\* |x| compared with 1.
AbsLtOne(x) == FLt(FAbs[x], FromInt(1))
AbsEqOne(x) == FAbs[x] = FromInt(1)

\* |x| ** y = exp(y ln |x|) for finite nonzero x and y, L = ln |x| in fixed
\* point; neg = 1 when the result is negative.
PowFinite[y \in Val, L \in Int, neg \in {0, 1}] ==
  LET P == y.m * (IF L < 0 THEN -L ELSE L)
      ps == IF (L < 0) = (y.s = 1) THEN 0 ELSE 1
  IN IF P = 0 THEN Fin(neg, Pow2(Prec - 1), 1 - Prec)
     ELSE IF BitLen[P] + y.e > FracBits + 7
          THEN (IF ps = 0 THEN Inf(neg) ELSE Zero(neg))
     ELSE LET mag == IF y.e >= 0 THEN P * Pow2(y.e)
                     ELSE IF -y.e > 30 THEN 0 ELSE P \div Pow2(-y.e)
              r == FExpOfFix[IF ps = 1 THEN -mag ELSE mag]
          IN IF neg = 1 THEN FNeg[r] ELSE r
\* x ** y and np.power(x, y) on numpy values (C pow): a negative base with a
\* fractional exponent is NaN, 0 ** negative is inf.
FPow[x \in Val, y \in Val] ==
  IF IsZero(y) THEN FromInt(1)
  ELSE IF x = FromInt(1) THEN FromInt(1)
  ELSE IF IsNaN(x) \/ IsNaN(y) THEN NaN
  ELSE IF IsInf(y)
       THEN IF AbsEqOne(x) THEN FromInt(1)
            ELSE IF AbsLtOne(x) = (y.s = 1) THEN Inf(0) ELSE Zero(0)
  ELSE LET neg == IF x.s = 1 /\ IsOddInt(y) THEN 1 ELSE 0
       IN IF IsZero(x) THEN (IF y.s = 1 THEN Inf(neg) ELSE Zero(neg))
          ELSE IF IsInf(x) THEN (IF y.s = 1 THEN Zero(neg) ELSE Inf(neg))
          ELSE IF x.s = 1 /\ ~IsInt(y) THEN NaN
          ELSE PowFinite[y, LogFix[FAbs[x]], neg]

\* The integer square root of N, lo <= sqrt(N) < hi, by bisection.
ISqrt[N \in Nat, lo \in Nat, hi \in Nat] ==
  IF hi - lo <= 1 THEN lo
  ELSE IF ((lo + hi) \div 2) * ((lo + hi) \div 2) <= N
       THEN ISqrt[N, (lo + hi) \div 2, hi]
       ELSE ISqrt[N, lo, (lo + hi) \div 2]
SqrtRound[N \in Nat, r \in Nat, E \in Int] == RoundInt[0, r, E, r * r # N]
\* np.sqrt
FSqrt[x \in Val] ==
  IF IsNaN(x) THEN NaN
  ELSE IF IsZero(x) THEN x
  ELSE IF x.s = 1 THEN NaN
  ELSE IF IsInf(x) THEN x
  ELSE LET b == BitLen[x.m]
           mn == x.m * Pow2(Prec - b)
           en == x.e - (Prec - b)
           t == IF (en - (Prec + 2)) % 2 = 0 THEN Prec + 2 ELSE Prec + 3
       IN SqrtRound[mn * Pow2(t), ISqrt[mn * Pow2(t), 0, Pow2(Prec + 3)],
                    (en - t) \div 2]

\* arctan(a) for fixed-point 0 <= a <= 1:
\* pi/4 a + a (1 - a) (0.2447 + 0.0663 a).
AtanUnit[a \in Nat] ==
  FixMul(QuarterPiFix, a)
  + FixMul(FixMul(a, One - a), AtanC1Fix + FixMul(AtanC2Fix, a))
AtanFix[a \in Nat] ==
  IF a <= One THEN AtanUnit[a]
  ELSE 2 * QuarterPiFix - AtanUnit[(One * One) \div a]
\* np.arctan
FArctan[x \in Val] ==
  IF IsNaN(x) THEN NaN
  ELSE IF IsZero(x) THEN x
  ELSE IF IsInf(x) THEN FromFix[IF x.s = 1 THEN -2 * QuarterPiFix ELSE 2 * QuarterPiFix]
  ELSE IF BitLen[x.m] + x.e < -4 THEN x
  ELSE IF BitLen[x.m] + x.e > FracBits
       THEN FromFix[IF x.s = 1 THEN -2 * QuarterPiFix ELSE 2 * QuarterPiFix]
  ELSE FromFix[IF x.s = 1 THEN -AtanFix[ToFix[FAbs[x]]] ELSE AtanFix[ToFix[FAbs[x]]]]

(***************************************************************************)
(* src/esm2m/thermodynamics.py: the literals of the formulas.              *)
(***************************************************************************)
K2991_2729 == Dec(29912729, 4)
K6017_0128 == Dec(60170128, 4)
K18_87643854 == Dec(1887643854, 8)
K0_028354721 == Dec(28354721, 9)
K1_7838301Em5 == Dec(17838301, 12)
K8_4150417Em10 == Dec(84150417, 17)
K4_4412542Em13 == Dec(44412542, 20)
K2_858487 == Dec(2858487, 6)
K621_97 == Dec(62197, 2)
K0_2854 == Dec(2854, 4)
K0_28Em3 == Dec(28, 5)
K3_376 == Dec(3376, 3)
K0_00254 == Dec(254, 5)
K0_81Em3 == Dec(81, 5)
K45_114 == Dec(45114, 3)
K51_489 == Dec(51489, 3)
K273_15 == Dec(27315, 2)
K3_504 == Dec(3504, 3)
K0_151977 == Dec(151977, 6)
K8_313659 == Dec(8313659, 6)
K1_676331 == Dec(1676331, 6)
K0_00391838 == Dec(391838, 8)
K1_5 == Dec(15, 1)
K0_023101 == Dec(23101, 6)
K4_686035 == Dec(4686035, 6)
I1 == FromInt(1)
I2 == FromInt(2)
I3 == FromInt(3)
I4 == FromInt(4)
I55 == FromInt(55)
I100 == FromInt(100)
I1000 == FromInt(1000)
I2840 == FromInt(2840)

\* calc_esat_from_tref: saturation vapor pressure [mbar] from temperature [K].
calc_esat_from_tref(tref) ==
  FDiv[FExp[
    FAdd[FAdd[FSub[FAdd[FSub[FAdd[FSub[
      FDiv[FNeg[K2991_2729], FPow[tref, I2]],
      FDiv[K6017_0128, tref]],
      K18_87643854],
      FMul[K0_028354721, tref]],
      FMul[K1_7838301Em5, FPow[tref, I2]]],
      FMul[K8_4150417Em10, FPow[tref, I3]]],
      FMul[K4_4412542Em13, FPow[tref, I4]]],
      FMul[K2_858487, FLog[tref]]]],
    I100]

\* Variant of calc_wsat_from_esat_p: a zero denominator is guarded and the
\* result is 0.
wsat_guarded(esat, p) ==
  IF FEq(p, esat) THEN Zero(0) ELSE FDiv[FMul[K621_97, esat], FSub[p, esat]]

\* Variant of calc_wsat_from_esat_p: 621.97*esat/(esat-p).
wsat_reversed_difference(esat, p) == FDiv[FMul[K621_97, esat], FSub[esat, p]]

\* calc_wsat_from_esat_p: 621.97*esat/(p-esat)
calc_wsat_from_esat_p(esat, p) ==
  FDiv[FMul[K621_97, esat], FSub[p, esat]]

\* calc_rh_from_sh_wsat: 100*sh/((1-sh)*wsat/1000)
calc_rh_from_sh_wsat(sh, wsat) ==
  FDiv[FMul[I100, sh], FDiv[FMul[FSub[I1, sh], wsat], I1000]]

\* calc_w_from_sh: 1000*sh/(1-sh)
calc_w_from_sh(sh) ==
  FDiv[FMul[I1000, sh], FSub[I1, sh]]

\* Variant of calc_w_from_wsat_rh: rh*wsat/100.
w_product_first(wsat, rh) == FDiv[FMul[rh, wsat], I100]

\* calc_w_from_wsat_rh: rh/100*wsat
calc_w_from_wsat_rh(wsat, rh) ==
  FMul[FDiv[rh, I100], wsat]

\* calc_tl_from_tref_rh: 1/(1/(tref-55)-np.log(rh/100)/2840)+55
calc_tl_from_tref_rh(tref, rh) ==
  FAdd[FDiv[I1, FSub[FDiv[I1, FSub[tref, I55]],
                     FDiv[FLog[FDiv[rh, I100]], I2840]]],
       I55]

\* calc_theta_from_w_tref_tl_p:
\* tref*(1000/p)**(0.2854*(1-0.28E-3*w)) * np.exp((3.376/tl-0.00254)*w*(1+0.81E-3*w))
calc_theta_from_w_tref_tl_p(w, tref, tl, p) ==
  FMul[FMul[tref,
            FPow[FDiv[I1000, p],
                 FMul[K0_2854, FSub[I1, FMul[K0_28Em3, w]]]]],
       FExp[FMul[FMul[FSub[FDiv[K3_376, tl], K0_00254], w],
                 FAdd[I1, FMul[K0_81Em3, w]]]]]

\* calc_wbt_from_theta: 45.114-51.489*(theta/273.15)**-3.504
calc_wbt_from_theta(theta) ==
  FSub[K45_114, FMul[K51_489, FPow[FDiv[theta, K273_15], FNeg[K3_504]]]]

\* The five terms of the fit of Stull (2011), on a temperature in Celsius.
stull_terms(tc, rh) ==
  LET term1_stull == FMul[tc, FArctan[FMul[K0_151977, FSqrt[FAdd[rh, K8_313659]]]]]
      term2_stull == FArctan[FAdd[tc, rh]]
      term3_stull == FArctan[FSub[rh, K1_676331]]
      term4_stull == FMul[FMul[K0_00391838, FPow[rh, K1_5]],
                          FArctan[FMul[K0_023101, rh]]]
      term5_stull == K4_686035
  IN FSub[FAdd[FSub[FAdd[term1_stull, term2_stull], term3_stull], term4_stull],
          term5_stull]

\* calc_wbt_from_tref_rh: tref = tref-273.15, then the fit.
calc_wbt_from_tref_rh(tref, rh) ==
  stull_terms(FSub[tref, K273_15], rh)

(***************************************************************************)
(* The higher-level functions.  A call is recorded as its frame: the       *)
(* parameters, every local (Unbound when no statement assigned it), the    *)
(* value returned and the exception raised ("none" when it returned).      *)
(* Each assignment statement is a step from frame to frame.                *)
(***************************************************************************)
\* A method argument left out of the call.
Omitted == "(omitted)"
FrameVal == [tref : Val, sh : Val, p : Val, esat : Val, wsat : Val, rh : Val,
             w : Val, tl : Val, theta : Val, wbt : Val, ret : Val, raised : STRING]
NoFrame == [tref |-> Unbound, sh |-> Unbound, p |-> Unbound, esat |-> Unbound,
            wsat |-> Unbound, rh |-> Unbound, w |-> Unbound, tl |-> Unbound,
            theta |-> Unbound, wbt |-> Unbound, ret |-> Unbound, raised |-> "none"]
\* Entry into a function of (tref, sh, p) / of (tref, rh, p).
enter_tref_sh_p(tref, sh, p) == [NoFrame EXCEPT !.tref = tref, !.sh = sh, !.p = p]
enter_tref_rh_p(tref, rh, p) == [NoFrame EXCEPT !.tref = tref, !.rh = rh, !.p = p]

\* esat = calc_esat_from_tref(tref)
assign_esat[f \in FrameVal] == [f EXCEPT !.esat = calc_esat_from_tref(f.tref)]
\* wsat = calc_wsat_from_esat_p(esat,p)
assign_wsat[f \in FrameVal] == [f EXCEPT !.wsat = calc_wsat_from_esat_p(f.esat, f.p)]
\* rh = calc_rh_from_sh_wsat(sh,wsat)
assign_rh[f \in FrameVal] == [f EXCEPT !.rh = calc_rh_from_sh_wsat(f.sh, f.wsat)]
\* w = calc_w_from_wsat_rh(wsat,rh)
assign_w[f \in FrameVal] == [f EXCEPT !.w = calc_w_from_wsat_rh(f.wsat, f.rh)]
\* tl = calc_tl_from_tref_rh(tref,rh)
assign_tl[f \in FrameVal] == [f EXCEPT !.tl = calc_tl_from_tref_rh(f.tref, f.rh)]
\* theta = calc_theta_from_w_tref_tl_p(w,tref,tl,p)
assign_theta[f \in FrameVal] ==
  [f EXCEPT !.theta = calc_theta_from_w_tref_tl_p(f.w, f.tref, f.tl, f.p)]
\* wbt = calc_wbt_from_theta(theta)
assign_wbt_theta[f \in FrameVal] == [f EXCEPT !.wbt = calc_wbt_from_theta(f.theta)]
\* wbt = calc_wbt_from_tref_rh(tref, rh)
assign_wbt_stull[f \in FrameVal] == [f EXCEPT !.wbt = calc_wbt_from_tref_rh(f.tref, f.rh)]
\* return wbt / return rh / the end of the function body without a return
return_wbt[f \in FrameVal] == [f EXCEPT !.ret = f.wbt]
return_rh[f \in FrameVal] == [f EXCEPT !.ret = f.rh]
fall_off_end[f \in FrameVal] == [f EXCEPT !.ret = None]

\* Variant of the Stull branch: the temperature is converted to Celsius before
\* it is handed to calc_wbt_from_tref_rh, which converts it again.
wbt_stull_celsius_twice(tref, sh, p) ==
  return_wbt[assign_wbt_stull[
    [assign_rh[assign_wsat[assign_esat[enter_tref_sh_p(tref, sh, p)]]]
       EXCEPT !.tref = FSub[tref, K273_15]]]]

\* Variant of _calc_rh_from_tref_sh_p: calc_wsat_from_esat_p(p,esat).
rh_swapped_arguments(tref, sh, p) ==
  LET esat == calc_esat_from_tref(tref)
      wsat == calc_wsat_from_esat_p(p, esat)
      rh == calc_rh_from_sh_wsat(sh, wsat)
  IN  [enter_tref_sh_p(tref, sh, p) EXCEPT !.esat = esat, !.wsat = wsat, !.rh = rh,
                                           !.ret = rh]

\* Variant of _calc_wbt_from_tref_sh_p: a method that is not 'Davies-Jones'
\* is treated as 'Stull'.
wbt_else_stull(tref, sh, p, method) ==
  LET m == IF method = Omitted THEN "Davies-Jones" ELSE method
  IN IF m = "Davies-Jones"
     THEN fall_off_end[assign_wbt_theta[assign_theta[assign_tl[assign_w[assign_rh[
            assign_wsat[assign_esat[enter_tref_sh_p(tref, sh, p)]]]]]]]]
     ELSE return_wbt[assign_wbt_stull[assign_rh[assign_wsat[assign_esat[
            enter_tref_sh_p(tref, sh, p)]]]]]

\* _calc_wbt_from_tref_sh_p, branch method=='Davies-Jones': wbt is assigned and
\* the function body ends; there is no return statement on this branch.
wbt_davies_jones(tref, sh, p) ==
  fall_off_end[assign_wbt_theta[assign_theta[assign_tl[assign_w[assign_rh[
    assign_wsat[assign_esat[enter_tref_sh_p(tref, sh, p)]]]]]]]]

\* _calc_wbt_from_tref_sh_p, branch method=='Stull'.
wbt_stull(tref, sh, p) ==
  return_wbt[assign_wbt_stull[assign_rh[assign_wsat[assign_esat[
    enter_tref_sh_p(tref, sh, p)]]]]]

\* _calc_wbt_from_tref_sh_p, neither branch taken.
wbt_no_branch(tref, sh, p) == fall_off_end[enter_tref_sh_p(tref, sh, p)]

\* _calc_wbt_from_tref_sh_p(tref,sh,p,method='Davies-Jones')
_calc_wbt_from_tref_sh_p(tref, sh, p, method) ==
  LET m == IF method = Omitted THEN "Davies-Jones" ELSE method
  IN IF m = "Davies-Jones" THEN wbt_davies_jones(tref, sh, p)
     ELSE IF m = "Stull" THEN wbt_stull(tref, sh, p)
     ELSE wbt_no_branch(tref, sh, p)

\* _calc_rh_from_tref_sh_p(tref,sh,p)
_calc_rh_from_tref_sh_p(tref, sh, p) ==
  return_rh[assign_rh[assign_wsat[assign_esat[enter_tref_sh_p(tref, sh, p)]]]]

\* _calc_wbt_from_tref_rh_p(tref,rh,p)
_calc_wbt_from_tref_rh_p(tref, rh, p) ==
  return_wbt[assign_wbt_theta[assign_theta[assign_tl[assign_w[
    assign_wsat[assign_esat[enter_tref_rh_p(tref, rh, p)]]]]]]]

(***************************************************************************)
(* The entry points applied to one set of arguments.                       *)
(***************************************************************************)
TrefVals == {FromInt(0), I55, FromInt(250), FromInt(300)}
ShVals == {FromInt(0), Dec(1, 2), I1}
RhVals == {FromInt(50), FromInt(0), FromInt(-5)}
PVals == {FromInt(1013), calc_esat_from_tref(FromInt(300)), FromInt(10)}
MethodVals == {Omitted, "Davies-Jones", "Stull", "stull", ""}

InitPipe ==
  /\ arg_tref \in TrefVals
  /\ arg_sh \in ShVals
  /\ arg_rh \in RhVals
  /\ arg_p \in PVals
  /\ arg_method \in MethodVals
  /\ called = {}
  /\ wbt_sh_call = NoFrame
  /\ rh_sh_call = NoFrame
  /\ wbt_rh_call = NoFrame

Call_wbt_from_tref_sh_p ==
  /\ "wbt_sh" \notin called
  /\ wbt_sh_call' = _calc_wbt_from_tref_sh_p(arg_tref, arg_sh, arg_p, arg_method)
  /\ called' = called \cup {"wbt_sh"}
  /\ UNCHANGED <<arg_tref, arg_sh, arg_rh, arg_p, arg_method, rh_sh_call, wbt_rh_call>>
  /\ UNCHANGED <<vars_basic, vars_path>>

Call_rh_from_tref_sh_p ==
  /\ "rh_sh" \notin called
  /\ rh_sh_call' = _calc_rh_from_tref_sh_p(arg_tref, arg_sh, arg_p)
  /\ called' = called \cup {"rh_sh"}
  /\ UNCHANGED <<arg_tref, arg_sh, arg_rh, arg_p, arg_method, wbt_sh_call, wbt_rh_call>>
  /\ UNCHANGED <<vars_basic, vars_path>>

Call_wbt_from_tref_rh_p ==
  /\ "wbt_rh" \notin called
  /\ wbt_rh_call' = _calc_wbt_from_tref_rh_p(arg_tref, arg_rh, arg_p)
  /\ called' = called \cup {"wbt_rh"}
  /\ UNCHANGED <<arg_tref, arg_sh, arg_rh, arg_p, arg_method, wbt_sh_call, rh_sh_call>>
  /\ UNCHANGED <<vars_basic, vars_path>>

NextPipe ==
  \/ Call_wbt_from_tref_sh_p
  \/ Call_rh_from_tref_sh_p
  \/ Call_wbt_from_tref_rh_p

(***************************************************************************)
(* The basic functions called directly.                                    *)
(***************************************************************************)
\* The value following a positive finite x in the format (x plus one ulp).
NextUp(x) == RoundInt[0, x.m + 1, x.e, FALSE]
EsatVals == {Zero(0), Fin(0, 1, ELo), FromInt(35), NextUp(FromInt(35)),
             NextUp(NextUp(FromInt(35))), FromInt(54), NextUp(FromInt(54)),
             FromInt(1000)}
PBasicVals == {FromInt(515), FromInt(1013), Inf(0)}
WsatVals == {Zero(0), Zero(1), Fin(0, 1, ELo), FromInt(3), Dec(2249, 2), FromInt(-7),
             Fin(0, Pow2(Prec) - 1, EHi), Inf(0), Inf(1), NaN}
RhBasicVals == {I100, FromInt(50)}

InitBasic ==
  /\ in_esat1 \in EsatVals
  /\ in_esat2 \in EsatVals
  /\ in_p \in PBasicVals
  /\ in_wsat \in WsatVals
  /\ in_rh \in RhBasicVals
  /\ basic_called = {}
  /\ out_wsat1 = Unbound
  /\ out_wsat2 = Unbound
  /\ out_w = Unbound

Call_calc_wsat_1 ==
  /\ "wsat1" \notin basic_called
  /\ out_wsat1' = calc_wsat_from_esat_p(in_esat1, in_p)
  /\ basic_called' = basic_called \cup {"wsat1"}
  /\ UNCHANGED <<in_esat1, in_esat2, in_p, in_wsat, in_rh, out_wsat2, out_w>>
  /\ UNCHANGED <<vars_pipe, vars_path>>

Call_calc_wsat_2 ==
  /\ "wsat2" \notin basic_called
  /\ out_wsat2' = calc_wsat_from_esat_p(in_esat2, in_p)
  /\ basic_called' = basic_called \cup {"wsat2"}
  /\ UNCHANGED <<in_esat1, in_esat2, in_p, in_wsat, in_rh, out_wsat1, out_w>>
  /\ UNCHANGED <<vars_pipe, vars_path>>

Call_calc_w ==
  /\ "w" \notin basic_called
  /\ out_w' = calc_w_from_wsat_rh(in_wsat, in_rh)
  /\ basic_called' = basic_called \cup {"w"}
  /\ UNCHANGED <<in_esat1, in_esat2, in_p, in_wsat, in_rh, out_wsat1, out_wsat2>>
  /\ UNCHANGED <<vars_pipe, vars_path>>

NextBasic ==
  \/ Call_calc_wsat_1
  \/ Call_calc_wsat_2
  \/ Call_calc_w

(***************************************************************************)
(* config_perturbations.py: get_path and load_exps.                        *)
(***************************************************************************)
PyNone == "<None>"                        \* the value None of an optional argument
ExpNone == [kind |-> "none", str |-> ""]
ExpStr(x) == [kind |-> "str", str |-> x]
ExpList == [kind |-> "list", str |-> ""]  \* the list object held in caller_list

Range(seq) == {seq[i] : i \in 1..Len(seq)}

\* list.remove(x): drops the first occurrence of x.
ListRemove(seq, x) ==
  LET i == CHOOSE k \in 1..Len(seq) : seq[k] = x /\ \A j \in 1..(k - 1) : seq[j] # x
  IN  SubSeq(seq, 1, i - 1) \o SubSeq(seq, i + 1, Len(seq))

TracerVars == {"alk", "alpha", "biomass_p", "chl", "co2_alpha", "co3_ion", "delta_csurf",
               "delta_pco2", "dic_area_integral", "dic", "dic_stf", "dic_volume_integral",
               "dop_area_integral", "dop", "dop_volume_integral", "fed", "fed_stf",
               "htotal", "integral_dic", "integral_dic_stf", "irr_mem", "jdic_100", "o2",
               "pco2_surf", "po4_area_integral", "po4", "po4_volume_integral"}
OcnFluxVars == {"co2_flux_alpha_ocn", "co2_flux_cair_ice_ocn", "co2_flux_csurf_ocn",
                "co2_flux_flux_ice_ocn", "co2_flux_kw_ice_ocn", "co2_flux_schmidt_ocn",
                "o2_flux_alpha_ocn", "o2_flux_csurf_ocn", "o2_flux_flux_ice_ocn",
                "o2_flux_schmidt_ocn"}
GatDicVars == {"atm_gas_flux", "atm_gas_input", "atm_mol_wgt", "base_mix_ratio",
               "gas_mol_wgt", "mix_ratio", "total_atm_mass", "total_gas_mass"}

get_variable_dict ==
  [v \in TracerVars \cup OcnFluxVars \cup GatDicVars |->
     IF v \in TracerVars THEN "ocean_bling_tracers"
     ELSE IF v \in OcnFluxVars THEN "ocean_bling_ocn_flux"
     ELSE "ocean_gat_dic"]

\* Variant of lines 27-33: the variable is looked up whether or not ppname
\* is given.
resolve_ppname_always_looks_up(variable, ppname) ==
  IF variable \in DOMAIN get_variable_dict
  THEN [raised |-> "none",
        ppname |-> IF ppname = PyNone THEN get_variable_dict[variable] ELSE ppname,
        consulted |-> TRUE]
  ELSE [raised |-> "NameError", ppname |-> ppname, consulted |-> TRUE]

\* Lines 27-33: ppname derived from the variable unless it is given.
resolve_ppname(variable, ppname) ==
  IF ppname = PyNone
  THEN IF variable \in DOMAIN get_variable_dict
       THEN [raised |-> "none", ppname |-> get_variable_dict[variable], consulted |-> TRUE]
       ELSE [raised |-> "NameError", ppname |-> PyNone, consulted |-> TRUE]
  ELSE [raised |-> "none", ppname |-> ppname, consulted |-> FALSE]

\* Lines 36-41: prefix and suffix; neither branch taken leaves both unbound.
configure_ppname(ppname) ==
  IF ppname = "ocean_bling_tracers"
  THEN [bound |-> TRUE, pre |-> "ocean_bling", suf |-> "_tracers"]
  ELSE IF ppname \in {"ocean_bling_ocn_flux", "bling_atm_flux", "ocean_gat_dic"}
  THEN [bound |-> TRUE, pre |-> ppname, suf |-> ""]
  ELSE [bound |-> FALSE, pre |-> "", suf |-> ""]

\* Lines 44-45: the non-gat control is removed from the list in place.
drop_control(ppname, exps) ==
  IF ppname = "ocean_gat_dic" /\ "" \in Range(exps) THEN ListRemove(exps, "") ELSE exps

\* Lines 8-12 and 49-51: the path of one experiment.
build_path(override, cfg, e, timespan, variable) ==
  LET config == IF override THEN "MOM5_SIS_BLING_CORE2-gat" \o "-override-po4"
                ELSE "MOM5_SIS_BLING_CORE2-gat"
      pp == "/archive/Richard.Slater/Siena/siena_201308_rds-c3-gat-slurm/" \o config
            \o "/gfdl.ncrc3-intel16-prod-openmp/pp/"
      localdir == "/ts/monthly/10yr/"
      ppname == cfg.pre \o e \o cfg.suf
      filename == ppname \o "." \o timespan \o "." \o variable \o ".nc"
  IN  pp \o ppname \o localdir \o filename

NoPaths == <<>>

\* get_path called with the argument experiments while the caller's list
\* object holds heap; the field heap is that object when the call ends.
get_path(variable, ppname, override, experiments, timespan, heap) ==
  LET exps0 == IF experiments.kind = "none" THEN <<"", "_gat", "_zero", "_double">>
               ELSE IF experiments.kind = "str" THEN <<experiments.str>>
               ELSE heap
      variable1 == IF variable = PyNone THEN "*" ELSE variable
      timespan1 == IF timespan = PyNone THEN "*" ELSE timespan
      r == resolve_ppname(variable1, ppname)
      cfg == configure_ppname(r.ppname)
      exps1 == drop_control(r.ppname, exps0)
      heap1 == IF experiments.kind = "list" THEN exps1 ELSE heap
  IN  IF r.raised # "none"
      THEN [raised |-> r.raised, returned |-> FALSE, ret |-> NoPaths,
            consulted |-> r.consulted, ppname |-> r.ppname, heap |-> heap]
      ELSE IF exps1 # <<>> /\ ~cfg.bound
      THEN [raised |-> "UnboundLocalError", returned |-> FALSE, ret |-> NoPaths,
            consulted |-> r.consulted, ppname |-> r.ppname, heap |-> heap1]
      ELSE [raised |-> "none", returned |-> TRUE,
            ret |-> [e \in Range(exps1) |-> build_path(override, cfg, e, timespan1, variable1)],
            consulted |-> r.consulted, ppname |-> r.ppname, heap |-> heap1]

\* xr.open_mfdataset(path): a dataset backed by the files matching path.
open_mfdataset(path) == [files |-> path]
NoDataset == [files |-> ""]

\* Line 67-68: a single entry is looked up under the argument experiments.
select_single(dd, experiments) ==
  IF experiments.kind = "list"
  THEN [raised |-> "TypeError", kind |-> "nothing", dataset |-> NoDataset]
  ELSE IF experiments.kind = "str" /\ experiments.str \in DOMAIN dd
  THEN [raised |-> "none", kind |-> "dataset", dataset |-> dd[experiments.str]]
  ELSE [raised |-> "KeyError", kind |-> "nothing", dataset |-> NoDataset]

load_exps(variable, ppname, override, experiments, timespan, heap) ==
  LET g == get_path(variable, ppname, override, experiments, timespan, heap)
      dd == [e \in DOMAIN g.ret |-> open_mfdataset(g.ret[e])]
      one == select_single(dd, experiments)
  IN  IF ~g.returned
      THEN [raised |-> g.raised, kind |-> "nothing", dataset |-> NoDataset, dict |-> <<>>,
            paths |-> NoPaths, got_paths |-> FALSE, heap |-> g.heap]
      ELSE IF Cardinality(DOMAIN dd) = 1
      THEN [raised |-> one.raised, kind |-> one.kind, dataset |-> one.dataset, dict |-> <<>>,
            paths |-> g.ret, got_paths |-> TRUE, heap |-> g.heap]
      ELSE [raised |-> "none", kind |-> "dict", dataset |-> NoDataset, dict |-> dd,
            paths |-> g.ret, got_paths |-> TRUE, heap |-> g.heap]

VariableArgs == {PyNone, "*", "dic", "co2_flux_alpha_ocn", "atm_gas_flux", "co2_flux"}
PpnameArgs == {PyNone, "ocean_bling_tracers", "bling_atm_flux", "ocean_gat_dic", "atmos"}
TimespanArgs == {PyNone, "000101-001012"}
ExperimentArgs == {ExpNone, ExpStr(""), ExpStr("_gat"), ExpList}
CallerLists == {<<>>, <<"">>, <<"_gat">>, <<"", "_gat">>, <<"_gat", "">>, <<"", "">>,
                <<"_gat", "_zero">>, <<"", "_gat", "_zero", "_double">>}

NoPathCall == [raised |-> "none", returned |-> FALSE, ret |-> NoPaths, consulted |-> FALSE,
               ppname |-> PyNone, heap |-> <<>>, list_at_entry |-> <<>>]
NoLoadCall == [raised |-> "none", kind |-> "nothing", dataset |-> NoDataset, dict |-> <<>>,
               paths |-> NoPaths, got_paths |-> FALSE, heap |-> <<>>, list_at_entry |-> <<>>]

InitPath ==
  /\ arg_variable \in VariableArgs
  /\ arg_ppname \in PpnameArgs
  /\ arg_override \in BOOLEAN
  /\ arg_experiments \in ExperimentArgs
  /\ arg_timespan \in TimespanArgs
  /\ caller_list \in (IF arg_experiments.kind = "list" THEN CallerLists ELSE {<<>>})
  /\ last_call = "none"
  /\ path_call = NoPathCall
  /\ load_call = NoLoadCall

Call_get_path ==
  LET r == get_path(arg_variable, arg_ppname, arg_override, arg_experiments,
                    arg_timespan, caller_list)
  IN  /\ path_call' = [raised |-> r.raised, returned |-> r.returned, ret |-> r.ret,
                       consulted |-> r.consulted, ppname |-> r.ppname, heap |-> r.heap,
                       list_at_entry |-> caller_list]
      /\ caller_list' = r.heap
      /\ last_call' = "get_path"
      /\ UNCHANGED <<arg_variable, arg_ppname, arg_override, arg_experiments, arg_timespan,
                     load_call>>
      /\ UNCHANGED <<vars_pipe, vars_basic>>

Call_load_exps ==
  LET r == load_exps(arg_variable, arg_ppname, arg_override, arg_experiments,
                     arg_timespan, caller_list)
  IN  /\ load_call' = [raised |-> r.raised, kind |-> r.kind, dataset |-> r.dataset,
                       dict |-> r.dict, paths |-> r.paths, got_paths |-> r.got_paths,
                       heap |-> r.heap, list_at_entry |-> caller_list]
      /\ caller_list' = r.heap
      /\ last_call' = "load_exps"
      /\ UNCHANGED <<arg_variable, arg_ppname, arg_override, arg_experiments, arg_timespan,
                     path_call>>
      /\ UNCHANGED <<vars_pipe, vars_basic>>

NextPath ==
  \/ Call_get_path
  \/ Call_load_exps

(***************************************************************************)
(* Specifications.  Each one runs one group of calls and holds the state   *)
(* of the other groups at a fixed value.                                   *)
(***************************************************************************)
IdlePipe ==
  /\ arg_tref = I1 /\ arg_sh = I1 /\ arg_rh = I1 /\ arg_p = I1 /\ arg_method = Omitted
  /\ called = {}
  /\ wbt_sh_call = NoFrame /\ rh_sh_call = NoFrame /\ wbt_rh_call = NoFrame

IdleBasic ==
  /\ in_esat1 = I1 /\ in_esat2 = I1 /\ in_p = I1 /\ in_wsat = I1 /\ in_rh = I1
  /\ basic_called = {}
  /\ out_wsat1 = Unbound /\ out_wsat2 = Unbound /\ out_w = Unbound

IdlePath ==
  /\ arg_variable = PyNone /\ arg_ppname = PyNone /\ arg_override = FALSE
  /\ arg_experiments = ExpNone /\ arg_timespan = PyNone
  /\ caller_list = <<>>
  /\ last_call = "none"
  /\ path_call = NoPathCall /\ load_call = NoLoadCall

Init == InitPipe /\ IdleBasic /\ IdlePath
Next == NextPipe
Spec == Init /\ [][Next]_vars

InitBasicOnly == IdlePipe /\ InitBasic /\ IdlePath
SpecBasic == InitBasicOnly /\ [][NextBasic]_vars

InitPathOnly == IdlePipe /\ IdleBasic /\ InitPath
SpecPath == InitPathOnly /\ [][NextPath]_vars

(***************************************************************************)
(* Properties of the entry points of thermodynamics.py (Spec).             *)
(***************************************************************************)
Evaluated(x) == x.k # "unbound"
DaviesJonesCalled == "wbt_sh" \in called /\ arg_method \in {Omitted, "Davies-Jones"}
StullCalled == "wbt_sh" \in called /\ arg_method = "Stull"
OtherMethodCalled == "wbt_sh" \in called /\ arg_method \notin {Omitted, "Davies-Jones", "Stull"}
\* rh of the prefix esat -> wsat -> rh on the arguments of the call
PrefixRh == calc_rh_from_sh_wsat(arg_sh,
              calc_wsat_from_esat_p(calc_esat_from_tref(arg_tref), arg_p))

\* C1: with method='Davies-Jones', given or by default, the caller of
\* _calc_wbt_from_tref_sh_p receives the wet-bulb temperature
\* calc_wbt_from_theta(theta) of the full chain, not an absent result.
C1_DaviesJonesReturnsWbt ==
  DaviesJonesCalled =>
    /\ wbt_sh_call.ret # None
    /\ wbt_sh_call.ret = calc_wbt_from_theta(wbt_sh_call.theta)

\* C2: with method='Stull', _calc_wbt_from_tref_sh_p returns
\* calc_wbt_from_tref_rh(tref, rh) for the rh of the prefix esat -> wsat -> rh
\* on the same arguments; w, tl and theta are not evaluated; the Stull fit
\* sees the Kelvin input converted to Celsius exactly once.
C2_StullPath ==
  StullCalled =>
    /\ wbt_sh_call.raised = "none"
    /\ wbt_sh_call.rh = PrefixRh
    /\ wbt_sh_call.ret = calc_wbt_from_tref_rh(arg_tref, PrefixRh)
    /\ wbt_sh_call.ret = stull_terms(FSub[arg_tref, K273_15], PrefixRh)
    /\ ~Evaluated(wbt_sh_call.w)
    /\ ~Evaluated(wbt_sh_call.tl)
    /\ ~Evaluated(wbt_sh_call.theta)

C2_Witness ==
  /\ StullCalled
  /\ arg_tref = FromInt(300) /\ arg_sh = Dec(1, 2) /\ arg_p = FromInt(1013)
  /\ IsFin(wbt_sh_call.ret)
  /\ FLt(FromInt(10), wbt_sh_call.ret) /\ FLt(wbt_sh_call.ret, FromInt(27))

\* C3: the relative humidity returned by _calc_rh_from_tref_sh_p is the rh
\* computed inside _calc_wbt_from_tref_sh_p on the same (tref, sh, p), under
\* 'Davies-Jones' and under 'Stull': the same stages, in the same order, on
\* the same arguments.
C3_SameRh ==
  ("rh_sh" \in called /\ (DaviesJonesCalled \/ StullCalled)) =>
    /\ rh_sh_call.esat = wbt_sh_call.esat
    /\ rh_sh_call.wsat = wbt_sh_call.wsat
    /\ rh_sh_call.rh = wbt_sh_call.rh
    /\ rh_sh_call.ret = wbt_sh_call.rh
    /\ rh_sh_call.raised = "none"

C3_Witness ==
  /\ "rh_sh" \in called /\ DaviesJonesCalled
  /\ arg_tref = FromInt(300) /\ arg_sh = Dec(1, 2) /\ arg_p = FromInt(1013)
  /\ IsFin(rh_sh_call.ret)
  /\ FLt(FromInt(30), rh_sh_call.ret) /\ FLt(rh_sh_call.ret, FromInt(60))
  /\ rh_sh_call.ret = wbt_sh_call.rh

\* C4: with a method that is neither 'Davies-Jones' nor 'Stull',
\* _calc_wbt_from_tref_sh_p returns None, raises nothing and evaluates no
\* stage.
C4_OtherMethodReturnsNone ==
  OtherMethodCalled =>
    /\ wbt_sh_call.ret = None
    /\ wbt_sh_call.raised = "none"
    /\ ~Evaluated(wbt_sh_call.esat)
    /\ ~Evaluated(wbt_sh_call.wsat)
    /\ ~Evaluated(wbt_sh_call.rh)
    /\ ~Evaluated(wbt_sh_call.w)
    /\ ~Evaluated(wbt_sh_call.tl)
    /\ ~Evaluated(wbt_sh_call.theta)
    /\ ~Evaluated(wbt_sh_call.wbt)

C4_Witness ==
  /\ OtherMethodCalled
  /\ arg_method = "stull"
  /\ arg_tref = FromInt(300) /\ arg_sh = Dec(1, 2) /\ arg_p = FromInt(1013)
  /\ wbt_sh_call.ret = None

\* The stages of a frame: was the stage evaluated, its output, what it consumed.
StageEsat(f) == [on |-> Evaluated(f.esat), out |-> f.esat, ins |-> {f.tref}]
StageWsat(f) == [on |-> Evaluated(f.wsat), out |-> f.wsat, ins |-> {f.esat, f.p}]
StageRh(f) == [on |-> Evaluated(f.sh) /\ Evaluated(f.rh), out |-> f.rh,
               ins |-> {f.sh, f.wsat}]
StageW(f) == [on |-> Evaluated(f.w), out |-> f.w, ins |-> {f.wsat, f.rh}]
StageTl(f) == [on |-> Evaluated(f.tl), out |-> f.tl, ins |-> {f.tref, f.rh}]
StageTheta(f) == [on |-> Evaluated(f.theta), out |-> f.theta,
                  ins |-> {f.w, f.tref, f.tl, f.p}]
StageWbtTheta(f) == [on |-> Evaluated(f.theta) /\ Evaluated(f.wbt), out |-> f.wbt,
                     ins |-> {f.theta}]
StageWbtStull(f) == [on |-> ~Evaluated(f.theta) /\ Evaluated(f.wbt), out |-> f.wbt,
                     ins |-> {f.tref, f.rh}]
Stages(f) == {StageEsat(f), StageWsat(f), StageRh(f), StageW(f), StageTl(f),
              StageTheta(f), StageWbtTheta(f), StageWbtStull(f)}

\* The domain violations, each at its stage.
ViolatedWsat(f) == StageWsat(f).on /\ FEq(f.p, f.esat)
ViolatedRh(f) == StageRh(f).on /\ FEq(f.sh, I1)
ViolatedTl(f) == StageTl(f).on /\ (FLe(f.rh, Zero(0)) \/ FEq(f.tref, I55))
ViolatedWbt(f) == StageWbtTheta(f).on /\ IsZero(f.theta)
Violated(f) == ViolatedWsat(f) \/ ViolatedRh(f) \/ ViolatedTl(f) \/ ViolatedWbt(f)

\* The calls that end in a return statement, and all calls.
ReturningCalls ==
  (IF StullCalled THEN {wbt_sh_call} ELSE {})
  \cup (IF "rh_sh" \in called THEN {rh_sh_call} ELSE {})
  \cup (IF "wbt_rh" \in called THEN {wbt_rh_call} ELSE {})
AllCalls ==
  ReturningCalls \cup (IF "wbt_sh" \in called THEN {wbt_sh_call} ELSE {})

C6_FullHumidityIsSaturation ==
  ("w" \in basic_called /\ in_rh = I100) => out_w = in_wsat

C6_Witness ==
  /\ "w" \in basic_called
  /\ in_rh = I100
  /\ in_wsat = Dec(2249, 2)
  /\ out_w = in_wsat

\* 0 <= esat1 < esat2 < p with p finite, and both results computed.
ValidPair ==
  /\ {"wsat1", "wsat2"} \subseteq basic_called
  /\ IsFin(in_p)
  /\ FLe(Zero(0), in_esat1)
  /\ FLt(in_esat1, in_esat2)
  /\ FLt(in_esat2, in_p)

PathCalled == path_call # NoPathCall
LoadCalled == load_call # NoLoadCall
\* The variable after line 20-21.
LookedUpVariable == IF arg_variable = PyNone THEN "*" ELSE arg_variable

\* C8: without ppname, get_path raises NameError and returns no paths when
\* the variable, '*' if omitted, is no key of get_variable_dict(); with ppname
\* the dictionary is not consulted and every variable is accepted.
C8_VariableLookup ==
  PathCalled =>
    /\ (arg_ppname = PyNone /\ LookedUpVariable \notin DOMAIN get_variable_dict)
         => /\ path_call.raised = "NameError"
            /\ ~path_call.returned
            /\ path_call.ret = NoPaths
    /\ (arg_ppname = PyNone /\ LookedUpVariable \in DOMAIN get_variable_dict)
         => /\ path_call.returned
            /\ path_call.ppname = get_variable_dict[LookedUpVariable]
    /\ arg_ppname # PyNone
         => /\ ~path_call.consulted
            /\ path_call.raised # "NameError"
            /\ path_call.ppname = arg_ppname
            /\ configure_ppname(arg_ppname).bound => path_call.returned

C8_Witness ==
  /\ PathCalled
  /\ arg_ppname = PyNone
  /\ arg_variable = PyNone
  /\ path_call.raised = "NameError"
  /\ ~path_call.returned

\* C9: after get_path(..., experiments=L) with L a list, L holds the same
\* elements in the same order as before the call.
C9_CallerListUnchanged ==
  (PathCalled /\ arg_experiments.kind = "list")
    => path_call.heap = path_call.list_at_entry

\* C10: load_exps raises nothing once the paths are resolved; it returns the
\* one opened dataset when exactly one path is resolved and a dictionary keyed
\* by experiment otherwise, whether experiments is a string or a list.
C10_SingleDatasetUnwrapped ==
  (LoadCalled /\ load_call.got_paths) =>
    /\ load_call.raised = "none"
    /\ Cardinality(DOMAIN load_call.paths) = 1
         => /\ load_call.kind = "dataset"
            /\ \E e \in DOMAIN load_call.paths :
                 load_call.dataset = open_mfdataset(load_call.paths[e])
    /\ Cardinality(DOMAIN load_call.paths) # 1
         => /\ load_call.kind = "dict"
            /\ DOMAIN load_call.dict = DOMAIN load_call.paths

====
